---- MODULE Spec2Model ----
(***************************************************************************)
(* Model of obj2glb.py: main() walks a directory tree, loads every file    *)
(* whose name ends in ".obj", rotates the mesh, adds it to one scene under *)
(* the file's base name and exports the scene to model/<output-name>.      *)
(*                                                                         *)
(* Strings are sequences of one-character strings so that endswith,        *)
(* os.path.join, basename and splitext are computed as Python computes     *)
(* them.  A mesh is represented by one vertex with integer coordinates and *)
(* by the number of times apply_transform has been called on it.           *)
(* The run starts after parse_args has returned (line 13).                 *)
(***************************************************************************)
EXTENDS Integers, Sequences, FiniteSets, TLC

\* ------------------------------------------------------------------ bounds
\* Largest number of files in the input tree.
MaxFiles == 2
\* Number of directories of the input tree (the input folder included).
NumDirs == 3

\* ------------------------------------------------------- strings and paths
DotObj == <<".", "o", "b", "j">>
Sep == "/"
ExtSep == "."

\* File names that can occur in a directory.
Names ==
  { <<"a", ".", "o", "b", "j">>,
    <<"b", ".", "o", "b", "j">>,
    <<"a", ".", "O", "B", "J">> }

\* Variant of EndsWith: the comparison ignores the case of letters.
Lower(c) == IF c = "O" THEN "o" ELSE IF c = "B" THEN "b" ELSE IF c = "J" THEN "j" ELSE c
EndsWith_IgnoreCase(s, suffix) ==
  /\ Len(s) >= Len(suffix)
  /\ \A i \in 1..Len(suffix) :
       Lower(s[Len(s) - Len(suffix) + i]) = Lower(suffix[i])

\* str.endswith(suffix)
EndsWith(s, suffix) ==
  /\ Len(s) >= Len(suffix)
  /\ SubSeq(s, Len(s) - Len(suffix) + 1, Len(s)) = suffix

\* str.rfind(ch) + 1: the last position of ch in s, 0 when absent.
RFind(s, ch) ==
  IF \E i \in 1..Len(s) : s[i] = ch
  THEN CHOOSE i \in 1..Len(s) : s[i] = ch /\ \A j \in (i+1)..Len(s) : s[j] # ch
  ELSE 0

\* os.path.join(a, b) for a relative b
Join(a, b) ==
  IF a = <<>> \/ a[Len(a)] = Sep THEN a \o b ELSE a \o <<Sep>> \o b

\* os.path.basename(p)
Basename(p) == SubSeq(p, RFind(p, Sep) + 1, Len(p))

\* os.path.splitext(p)[0]: the extension starts at the last dot after the
\* last separator, unless only dots precede it in the last component.
SplitextRoot(p) ==
  LET sepIndex == RFind(p, Sep)
      dotIndex == RFind(p, ExtSep)
  IN  IF /\ dotIndex > sepIndex
         /\ \E k \in (sepIndex + 1)..(dotIndex - 1) : p[k] # ExtSep
      THEN SubSeq(p, 1, dotIndex - 1)
      ELSE p

\* ------------------------------------------------------- the input tree
Dirs == 0..(NumDirs - 1)
Parent(d) == (d - 1) \div 2
DirChar == <<"p", "q", "r", "s", "t", "u">>
ObjDir == <<"o", "/">>

RECURSIVE DirPath(_)
\* The root that os.walk reports for directory d.
DirPath(d) == IF d = 0 THEN ObjDir ELSE Join(DirPath(Parent(d)), <<DirChar[d]>>)

\* Sample vertices; UpY is the OBJ up direction.
UpY == <<0, 1, 0>>
Vertices == { UpY, <<1, 2, 3>> }

\* What trimesh makes of a file's content: "load", "transform" and "add"
\* name the statement of the try block that raises for this content.
Corrupt == [fault |-> "load", v |-> <<0, 0, 0>>]
Datas ==
  { Corrupt,
    [fault |-> "transform", v |-> UpY],
    [fault |-> "add", v |-> UpY] }
  \cup { [fault |-> "none", v |-> v] : v \in Vertices }

Keys == Dirs \X Names
FileOf(k, data) == [dir |-> k[1], name |-> k[2], data |-> data]

\* The trees of at most MaxFiles files.  The content of a file the program
\* never opens is immaterial and fixed to Corrupt.
Trees ==
  UNION { { { FileOf(k, dat[k]) : k \in ks } :
              dat \in { g \in [ks -> Datas] :
                          \A k \in ks : ~EndsWith(k[2], DotObj) => g[k] = Corrupt } } :
          ks \in { s \in SUBSET Keys : Cardinality(s) <= MaxFiles } }

\* ------------------------------------------------------- the transform
\* cos and sin of a whole number of quarter turns, given in degrees
Cos(deg) == LET q == (deg \div 90) % 4 IN IF q = 0 THEN 1 ELSE IF q = 2 THEN -1 ELSE 0
Sin(deg) == LET q == (deg \div 90) % 4 IN IF q = 1 THEN 1 ELSE IF q = 3 THEN -1 ELSE 0

Dot(a, b) == a[1] * b[1] + a[2] * b[2] + a[3] * b[3]
MatVec(R, v) == <<Dot(R[1], v), Dot(R[2], v), Dot(R[3], v)>>

\* trimesh.transformations.rotation_matrix(angle, direction, point):
\* R = cos*I + (1 - cos)*d*d^T + sin*[d]x, translation = point - R*point
rotation_matrix(angle, direction, point) ==
  LET cosa == Cos(angle)
      sina == Sin(angle)
      d == direction
      K == << <<0, -d[3], d[2]>>, <<d[3], 0, -d[1]>>, <<-d[2], d[1], 0>> >>
      R == [i \in 1..3 |-> [j \in 1..3 |->
              (IF i = j THEN cosa ELSE 0) + (1 - cosa) * d[i] * d[j] + sina * K[i][j]]]
      Rp == MatVec(R, point)
  IN  [R |-> R, t |-> <<point[1] - Rp[1], point[2] - Rp[2], point[3] - Rp[3]>>]

\* The matrix main builds for every file.
RotAngle == -90
FixedRotation == rotation_matrix(RotAngle, <<1, 0, 0>>, <<0, 0, 0>>)

\* mesh.apply_transform(matrix) on one vertex
TransformVertex(M, v) ==
  LET Rv == MatVec(M.R, v) IN <<Rv[1] + M.t[1], Rv[2] + M.t[2], Rv[3] + M.t[3]>>

\* ------------------------------------------------------------------ state
VARIABLES
  pathKind,         \* what obj_dir is on disk: "missing", "file" or "dir"
  tree,             \* the files under obj_dir
  modelDir,         \* what model/ is on disk: "absent", "dir" or "file"
  outFile,          \* model/<output-name>
  pc,               \* position of main
  stack,            \* os.walk: directories still to visit
  root,             \* os.walk: directory being listed
  files,            \* os.walk: files of root not yet iterated
  file,             \* the file of the current loop iteration
  mesh,             \* the mesh of the current loop iteration
  sceneCreated,     \* trimesh.Scene() has been called
  geometry,         \* scene.geometry
  nodes,            \* scene.graph: named nodes, each referring to a geometry
  obj_files_found,
  exitCode,         \* process exit status, NoExit while running
  crashed,          \* the run ended in an uncaught exception
  exportCalls,      \* number of scene.export calls of this run
  exported,         \* outcome of scene.export: "none", "ok" or "error"
  loadCalls,        \* number of trimesh.load calls per file of this run
  run,              \* 1 for the first run, 2 for a repeated run
  firstOut,         \* outFile as the first run left it
  firstExit         \* exit status of the first run

vars ==
  <<pathKind, tree, modelDir, outFile, pc, stack, root, files, file, mesh,
    sceneCreated, geometry, nodes, obj_files_found, exitCode, crashed,
    exportCalls, exported, loadCalls, run, firstOut, firstExit>>

NoExit == -1
NoDir == -1
NoFile == [dir |-> NoDir, name |-> <<>>, data |-> Corrupt]
NoMesh == [src |-> <<NoDir, <<>>>>, v |-> <<0, 0, 0>>, nrot |-> 0]
Absent == [kind |-> "absent", nodes |-> {}, meshes |-> {}]
Stale == [kind |-> "glb", nodes |-> {}, meshes |-> { <<9, 9, 9>> }]
Partial == [kind |-> "partial", nodes |-> {}, meshes |-> {}]

KeyOf(f) == <<f.dir, f.name>>

\* The state of the process when main is entered.
ProgramStart ==
  /\ pc = "exists"
  /\ stack = <<>>
  /\ root = NoDir
  /\ files = {}
  /\ file = NoFile
  /\ mesh = NoMesh
  /\ sceneCreated = FALSE
  /\ geometry = {}
  /\ nodes = {}
  /\ obj_files_found = 0
  /\ exitCode = NoExit
  /\ crashed = FALSE
  /\ exportCalls = 0
  /\ exported = "none"

Init ==
  /\ pathKind \in {"missing", "file", "dir"}
  /\ tree \in (IF pathKind = "dir" THEN Trees ELSE { {} })
  /\ modelDir \in {"absent", "dir", "file"}
  /\ outFile \in (IF modelDir = "dir" THEN {Absent, Stale} ELSE {Absent})
  /\ ProgramStart
  /\ loadCalls = [f \in tree |-> 0]
  /\ run = 1
  /\ firstOut = Absent
  /\ firstExit = NoExit

\* ---------------------------------------------------------------- helpers
\* sys.exit(code), and falling off the end of main for code 0
Exit(code) ==
  /\ pc' = "done"
  /\ exitCode' = code

\* An exception that no handler catches: traceback, exit status 1.
Uncaught ==
  /\ pc' = "done"
  /\ exitCode' = 1
  /\ crashed' = TRUE

\* The orders in which a directory listing can yield the members of S.
Orders(S) ==
  { s \in [1..Cardinality(S) -> S] : \A i, j \in 1..Cardinality(S) : s[i] = s[j] => i = j }

SubDirs(d) == { c \in Dirs : c >= 1 /\ Parent(c) = d }

\* obj_path and node_name of a file found in directory d
ObjPath(d, name) == Join(DirPath(d), name)
NodeName(d, name) == SplitextRoot(Basename(ObjPath(d, name)))

\* Variant of GraphUpdate: a node is appended even when the name is taken.
GraphUpdate_Append(ns, name, g) == ns \cup { [name |-> name, geom |-> g] }

\* scene.graph.update(frame_to=name, geometry=g): a node of that name is
\* created, or the existing node of that name is re-bound to g.
GraphUpdate(ns, name, g) ==
  { n \in ns : n.name # name } \cup { [name |-> name, geom |-> g] }

\* The geometry a node refers to.
MeshOf(n) == CHOOSE g \in geometry : g.src = n.geom

\* What scene.export writes: the named nodes with the mesh bound to each,
\* and the meshes of scene.geometry.
Glb ==
  [kind |-> "glb",
   nodes |-> { [name |-> n.name, v |-> MeshOf(n).v] : n \in nodes },
   meshes |-> { g.v : g \in geometry }]

\* ---------------------------------------------------------------- actions
\* lines 19-21
CheckExists ==
  /\ pc = "exists"
  /\ IF pathKind = "missing" THEN Exit(1) ELSE pc' = "isdir" /\ UNCHANGED exitCode
  /\ UNCHANGED <<pathKind, tree, modelDir, outFile, stack, root, files, file, mesh,
                 sceneCreated, geometry, nodes, obj_files_found, crashed,
                 exportCalls, exported, loadCalls, run, firstOut, firstExit>>

\* Variant of CheckIsDir: the isdir test is missing.
CheckIsDir_Skipped ==
  /\ pc = "isdir"
  /\ pc' = "setup"
  /\ UNCHANGED <<pathKind, tree, modelDir, outFile, stack, root, files, file, mesh,
                 sceneCreated, geometry, nodes, obj_files_found, exitCode, crashed,
                 exportCalls, exported, loadCalls, run, firstOut, firstExit>>

\* lines 23-25
CheckIsDir ==
  /\ pc = "isdir"
  /\ IF pathKind # "dir" THEN Exit(1) ELSE pc' = "setup" /\ UNCHANGED exitCode
  /\ UNCHANGED <<pathKind, tree, modelDir, outFile, stack, root, files, file, mesh,
                 sceneCreated, geometry, nodes, obj_files_found, crashed,
                 exportCalls, exported, loadCalls, run, firstOut, firstExit>>

\* lines 28-37: os.makedirs(exist_ok=True) raises FileExistsError when model
\* is a regular file; otherwise the scene is created and the walk starts.
Setup ==
  /\ pc = "setup"
  /\ IF modelDir = "file"
     THEN /\ Uncaught
          /\ UNCHANGED <<modelDir, sceneCreated, obj_files_found, stack>>
     ELSE /\ modelDir' = "dir"
          /\ sceneCreated' = TRUE
          /\ obj_files_found' = 0
          /\ stack' = <<0>>
          /\ pc' = "walk"
          /\ UNCHANGED <<exitCode, crashed>>
  /\ UNCHANGED <<pathKind, tree, outFile, root, files, file, mesh, geometry, nodes,
                 exportCalls, exported, loadCalls, run, firstOut, firstExit>>

\* Variant of WalkDir: only the top directory is listed (no recursion).
WalkDir_TopOnly ==
  /\ pc = "walk"
  /\ IF stack = <<>>
     THEN /\ pc' = "check"
          /\ root' = NoDir
          /\ UNCHANGED <<stack, files>>
     ELSE /\ root' = Head(stack)
          /\ files' = { f \in tree : f.dir = Head(stack) }
          /\ stack' = Tail(stack)
          /\ pc' = "files"
  /\ UNCHANGED <<pathKind, tree, modelDir, outFile, file, mesh, sceneCreated,
                 geometry, nodes, obj_files_found, exitCode, crashed, exportCalls,
                 exported, loadCalls, run, firstOut, firstExit>>

\* line 37: os.walk yields the next directory (top-down, sub-directories in
\* listing order), or the walk is over.
WalkDir ==
  /\ pc = "walk"
  /\ IF stack = <<>>
     THEN /\ pc' = "check"
          /\ root' = NoDir
          /\ UNCHANGED <<stack, files>>
     ELSE /\ root' = Head(stack)
          /\ files' = { f \in tree : f.dir = Head(stack) }
          /\ \E o \in Orders(SubDirs(Head(stack))) : stack' = o \o Tail(stack)
          /\ pc' = "files"
  /\ UNCHANGED <<pathKind, tree, modelDir, outFile, file, mesh, sceneCreated,
                 geometry, nodes, obj_files_found, exitCode, crashed, exportCalls, exported,
                 loadCalls, run, firstOut, firstExit>>

\* lines 38-44: the next file of the listing, in listing order
NextFile ==
  /\ pc = "files"
  /\ IF files = {}
     THEN /\ pc' = "walk"
          /\ UNCHANGED <<files, file, obj_files_found>>
     ELSE \E f \in files :
            /\ files' = files \ {f}
            /\ IF EndsWith(f.name, DotObj)
               THEN /\ obj_files_found' = obj_files_found + 1
                    /\ file' = f
                    /\ pc' = "load"
               ELSE UNCHANGED <<pc, file, obj_files_found>>
  /\ UNCHANGED <<pathKind, tree, modelDir, outFile, stack, root, mesh, sceneCreated,
                 geometry, nodes, exitCode, crashed, exportCalls, exported, loadCalls, run,
                 firstOut, firstExit>>

\* Variant of HandleException: the handler leaves the walk.
HandleException_Abort ==
  /\ pc' = "check"
  /\ mesh' = NoMesh
  /\ file' = NoFile

\* lines 62-63: the handler of the try block; the loop goes on
HandleException ==
  /\ pc' = "files"
  /\ mesh' = NoMesh
  /\ file' = NoFile

\* line 47
Load ==
  /\ pc = "load"
  /\ loadCalls' = [loadCalls EXCEPT ![file] = @ + 1]
  /\ IF file.data.fault = "load"
     THEN HandleException
     ELSE /\ mesh' = [src |-> KeyOf(file), v |-> file.data.v, nrot |-> 0]
          /\ pc' = "transform"
          /\ UNCHANGED file
  /\ UNCHANGED <<pathKind, tree, modelDir, outFile, stack, root, files, sceneCreated,
                 geometry, nodes, obj_files_found, exitCode, crashed, exportCalls, exported,
                 run, firstOut, firstExit>>

\* Variant of ApplyTransform: the mesh is passed on without being rotated.
ApplyTransform_Skipped ==
  /\ pc = "transform"
  /\ IF file.data.fault = "transform"
     THEN HandleException
     ELSE /\ pc' = "add"
          /\ UNCHANGED <<file, mesh>>
  /\ UNCHANGED <<pathKind, tree, modelDir, outFile, stack, root, files, sceneCreated,
                 geometry, nodes, obj_files_found, exitCode, crashed, exportCalls,
                 exported, loadCalls, run, firstOut, firstExit>>

\* lines 51-56
ApplyTransform ==
  /\ pc = "transform"
  /\ IF file.data.fault = "transform"
     THEN HandleException
     ELSE /\ mesh' = [mesh EXCEPT !.v = TransformVertex(FixedRotation, @),
                                  !.nrot = @ + 1]
          /\ pc' = "add"
          /\ UNCHANGED file
  /\ UNCHANGED <<pathKind, tree, modelDir, outFile, stack, root, files, sceneCreated,
                 geometry, nodes, obj_files_found, exitCode, crashed, exportCalls, exported,
                 loadCalls, run, firstOut, firstExit>>

\* line 61: scene.add_geometry(mesh, node_name=node_name)
AddGeometry ==
  /\ pc = "add"
  /\ IF file.data.fault = "add"
     THEN /\ HandleException
          /\ UNCHANGED <<geometry, nodes>>
     ELSE /\ geometry' = geometry \cup {mesh}
          /\ nodes' = GraphUpdate(nodes, NodeName(root, file.name), mesh.src)
          /\ pc' = "files"
          /\ mesh' = NoMesh
          /\ file' = NoFile
  /\ UNCHANGED <<pathKind, tree, modelDir, outFile, stack, root, files, sceneCreated,
                 obj_files_found, exitCode, crashed, exportCalls, exported, loadCalls, run,
                 firstOut, firstExit>>

\* lines 66-72
CheckScene ==
  /\ pc = "check"
  /\ IF geometry = {} THEN Exit(1) ELSE pc' = "export" /\ UNCHANGED exitCode
  /\ UNCHANGED <<pathKind, tree, modelDir, outFile, stack, root, files, file, mesh,
                 sceneCreated, geometry, nodes, obj_files_found, crashed,
                 exportCalls, exported, loadCalls, run, firstOut, firstExit>>

\* lines 75-77: export succeeds, main returns
ExportOk ==
  /\ pc = "export"
  /\ exportCalls' = exportCalls + 1
  /\ outFile' = Glb
  /\ exported' = "ok"
  /\ Exit(0)
  /\ UNCHANGED <<pathKind, tree, modelDir, stack, root, files, file, mesh,
                 sceneCreated, geometry, nodes, obj_files_found, crashed,
                 loadCalls, run, firstOut, firstExit>>

\* Variant of ExportFail: the handler does not call sys.exit(1).
ExportFail_ExitZero ==
  /\ pc = "export"
  /\ exportCalls' = exportCalls + 1
  /\ outFile' \in {outFile, Partial}
  /\ exported' = "error"
  /\ Exit(0)
  /\ UNCHANGED <<pathKind, tree, modelDir, stack, root, files, file, mesh,
                 sceneCreated, geometry, nodes, obj_files_found, crashed,
                 loadCalls, run, firstOut, firstExit>>

\* lines 75-80: export raises, before or after the file was opened for writing
ExportFail ==
  /\ pc = "export"
  /\ exportCalls' = exportCalls + 1
  /\ outFile' \in {outFile, Partial}
  /\ exported' = "error"
  /\ Exit(1)
  /\ UNCHANGED <<pathKind, tree, modelDir, stack, root, files, file, mesh,
                 sceneCreated, geometry, nodes, obj_files_found, crashed,
                 loadCalls, run, firstOut, firstExit>>

Next ==
  \/ CheckExists
  \/ CheckIsDir
  \/ Setup
  \/ WalkDir
  \/ NextFile
  \/ Load
  \/ ApplyTransform
  \/ AddGeometry
  \/ CheckScene
  \/ ExportOk
  \/ ExportFail

Spec == Init /\ [][Next]_vars

\* The program is run a second time on the same tree with the same output
\* name; the file system is as the first run left it.
Rerun ==
  /\ pc = "done"
  /\ run = 1
  /\ run' = 2
  /\ firstOut' = outFile
  /\ firstExit' = exitCode
  /\ pc' = "exists"
  /\ stack' = <<>>
  /\ root' = NoDir
  /\ files' = {}
  /\ file' = NoFile
  /\ mesh' = NoMesh
  /\ sceneCreated' = FALSE
  /\ geometry' = {}
  /\ nodes' = {}
  /\ obj_files_found' = 0
  /\ exitCode' = NoExit
  /\ crashed' = FALSE
  /\ exportCalls' = 0
  /\ exported' = "none"
  /\ loadCalls' = [f \in tree |-> 0]
  /\ UNCHANGED <<pathKind, tree, modelDir, outFile>>

NextTwice == Next \/ Rerun

SpecTwice == Init /\ [][NextTwice]_vars

\* ================================================================ claims
\* Vocabulary of the claims, stated without the operators of the model.

\* The name ends in exactly ".obj".
EndsInDotObj(name) == \E k \in 0..Len(name) : name = SubSeq(name, 1, k) \o DotObj
\* The '.obj' files of the tree.
ObjFiles == { f \in tree : EndsInDotObj(f.name) }
HasNoDot(s) == \A i \in 1..Len(s) : s[i] # "."
\* k is where the extension of name starts: the last dot, with something
\* other than dots before it.
ExtAt(name, k) ==
  /\ name[k] = "."
  /\ HasNoDot(SubSeq(name, k + 1, Len(name)))
  /\ \E i \in 1..(k - 1) : name[i] # "."
\* stem is the base name of the file name with the extension stripped.
IsStemOf(stem, name) ==
  IF \E k \in 1..Len(name) : ExtAt(name, k)
  THEN \E k \in 1..Len(name) : ExtAt(name, k) /\ stem = SubSeq(name, 1, k - 1)
  ELSE stem = name
\* The file of the tree with the given directory and name.
FileAt(key) == CHOOSE f \in tree : f.dir = key[1] /\ f.name = key[2]
\* Rotation by -90 degrees about the X axis through the origin.
RotXMinus90(v) == <<v[1], v[3], -v[2]>>
\* The walk has been started and is over.
WalkOver == sceneCreated /\ pc \in {"check", "export", "done"}
NodeNames(ns) == { n.name : n \in ns }

C2_NodePerFile ==
  (pc = "done" /\ exported = "ok" /\ \A f \in ObjFiles : f.data.fault = "none") =>
     /\ Cardinality(outFile.nodes) = Cardinality(ObjFiles)
     /\ \A n \in outFile.nodes : \E f \in ObjFiles : IsStemOf(n.name, f.name)

C4_FailureIsolated ==
  /\ \A g \in geometry : FileAt(g.src).data.fault = "none"
  /\ \A f \in tree : loadCalls[f] <= 1
  /\ WalkOver => \A f \in tree : loadCalls[f] = (IF f \in ObjFiles THEN 1 ELSE 0)
  /\ WalkOver => \A f \in ObjFiles : f.data.fault = "none" => \E g \in geometry : g.src = KeyOf(f)
  /\ (pc = "done" /\ sceneCreated /\ \E f \in ObjFiles : f.data.fault = "none") =>
        /\ exportCalls = 1
        /\ exported = "ok" => exitCode = 0

C4_Witness ==
  /\ pc = "done"
  /\ exitCode = 0
  /\ \E f \in ObjFiles : f.data.fault # "none" /\ loadCalls[f] = 1
  /\ \E f \in ObjFiles : f.data.fault = "none"

\* C5: When the input folder exists and holds no file ending in exactly
\* '.obj', the run exits 1, export is never invoked and the output file is
\* not created or changed.
C5_NoObjFiles ==
  /\ [] ((pathKind = "dir" /\ ObjFiles = {}) =>
           /\ exportCalls = 0
           /\ loadCalls = [f \in tree |-> 0]
           /\ pc = "done" => exitCode = 1)
  /\ [][(pathKind = "dir" /\ ObjFiles = {}) => outFile' = outFile]_vars

C5_Witness ==
  /\ pc = "done"
  /\ pathKind = "dir"
  /\ tree # {}
  /\ ObjFiles = {}
  /\ modelDir = "dir"
  /\ exitCode = 1

\* C6: When the input path is missing or not a directory the run exits 1 at
\* once, without an uncaught exception; nothing is loaded, no scene is
\* created or exported, and the file system is left as it was.
C6_BadPath ==
  /\ [] (pathKind # "dir" =>
           /\ pc \in {"exists", "isdir", "done"}
           /\ ~crashed
           /\ ~sceneCreated
           /\ exportCalls = 0
           /\ pc = "done" => exitCode = 1)
  /\ [][pathKind # "dir" => (modelDir' = modelDir /\ outFile' = outFile)]_vars

C6_Witness ==
  /\ pc = "done"
  /\ pathKind = "file"
  /\ modelDir = "absent"
  /\ exitCode = 1

\* C7: A second successful run on the same tree with the same output name
\* leaves the output file with the content the first successful run gave it.
C7_SameOutput ==
  (run = 2 /\ pc = "done" /\ firstExit = 0 /\ exitCode = 0) => outFile = firstOut

\* C8: The scene starts empty and only grows; export is invoked at most
\* once, exactly once in a run that exits 0, only after every '.obj' file
\* has been processed, and nothing is added to the scene after it.
C8_Lifecycle ==
  /\ [] (/\ ~sceneCreated => (geometry = {} /\ nodes = {})
         /\ exportCalls <= 1
         /\ (pc = "done" /\ exitCode = 0) => exportCalls = 1
         /\ exportCalls >= 1 =>
              /\ pc = "done"
              /\ \A f \in ObjFiles : loadCalls[f] = 1)
  /\ [][/\ (sceneCreated' /\ ~sceneCreated) => (geometry' = {} /\ nodes' = {})
        /\ geometry \subseteq geometry'
        /\ NodeNames(nodes) \subseteq NodeNames(nodes')
        /\ (pc = "export" \/ exportCalls >= 1) => (geometry' = geometry /\ nodes' = nodes)]_vars

C8_Witness ==
  /\ pc = "done"
  /\ exitCode = 0
  /\ exportCalls = 1
  /\ Cardinality(geometry) >= 2

\* C9: Every mesh in the scene has been rotated exactly once, by -90 degrees
\* about the X axis through the origin, before it was inserted; a mesh is
\* inserted neither unrotated nor rotated twice.
C9_RotatedOnce ==
  /\ \A g \in geometry :
       /\ g.nrot = 1
       /\ g.v = RotXMinus90(FileAt(g.src).data.v)
  /\ pc = "transform" => mesh.nrot = 0
  /\ pc = "add" => (mesh.nrot = 1 /\ mesh \notin geometry)

C9_Witness ==
  /\ pc = "done"
  /\ \E g \in geometry : g.v # FileAt(g.src).data.v

\* C10: The transform maps the up direction (0,1,0) of the OBJ file to
\* (0,0,1) in the scene.
C10_YUpToZUp ==
  \A g \in geometry : FileAt(g.src).data.v = UpY => g.v = <<0, 0, 1>>

====
